---- MODULE Spec2Model ----
(***************************************************************************)
(* A model of reviews_scraper_quickbooks.py: the two retrying fetchers,    *)
(* the three source paginators (scrape_app_store, scrape_google_play,      *)
(* scrape_trustpilot with its page tasks) and scrape_all_platforms.        *)
(*                                                                         *)
(* Time is counted in ticks, TicksPerDay of them to a calendar day.  An    *)
(* aware datetime is a pair (ts, tz): the instant ts in UTC ticks and the  *)
(* zone offset tz in ticks.  A text is a sequence of one-character         *)
(* strings.  The page ceilings and the item ceiling are the module-level   *)
(* configuration variables of the script, set here to a small             *)
(* configuration.                                                          *)
(***************************************************************************)
EXTENDS Integers, Sequences, FiniteSets, TLC

VARIABLES
    src,                 \* which entry point this run executes
    shutdown_requested,  \* the process-wide flag set by signal_handler
    now_utc,             \* the instant the source run started
    cutoff,              \* now_utc - 365 days, computed once per run
    pc,                  \* position of the main control flow
    page,                \* feed/store page index, web test_page
    attempt,             \* attempt number of the fetch call in progress
    data,                \* what the last fetch call returned
    reqlog,              \* responses received by the fetch call in progress
    parsed,              \* feed: the rows parsed from the last page
    all_rows,            \* rows (feed) / all_rows (store, web)
    seen,                \* the dedup index: seen (store) / seen_keys (web)
    result,              \* the list the source run returned
    token,               \* store: the continuation token (0 is None)
    batch,               \* store: the batch the last call returned
    consecutive_errors,  \* store: calls that raised in a row
    site,                \* web: the page each page number serves
    estimated_pages,     \* web: the estimate of the exploratory phase
    fut,                 \* web: the state of the future of each page
    task_attempt,        \* web: the attempt of http_get in each page task
    task_res,            \* web: what each finished page task returned
    done_q,              \* web: finished futures as_completed has yet to yield
    consecutive_empty_pages,
    stop_reason,         \* web: why the as_completed loop was left
    net_after_shutdown,  \* a network call was initiated with the flag set
    all_reviews,         \* scrape_all_platforms: the dict it builds
    enabled,             \* SCRAPE_APP_STORE, SCRAPE_GOOGLE_PLAY, SCRAPE_TRUSTPILOT
    raised,              \* the sources whose harvest call raised
    flag_at_turn,        \* the sources whose turn came with the flag set
    turn,                \* scrape_all_platforms: the if statement it is at
    harvested,           \* what the harvest call of each source returned
    arg,                 \* a call of a pure function: the function and its argument
    ret,                 \* a call of a pure function: what it returned
    gave_up              \* web: a page task ran out of attempts and returned no page

(***************************************************************************)
(* Configuration and literals of the script.                               *)
(***************************************************************************)
MAX_WORKERS == 4
POOL_CAP == 3
EXPLORE_END == 6
PAGE_MARGIN == 10
EMPTY_PAGES_STOP == 3
WEB_KEY_LEN == 80
MAX_RETRIES == 3
MAX_CONSECUTIVE_ERRORS == 3
STORE_KEY_LEN == 100
\* "reviews_added < 10 and page > 5", "page > 10"
GRACE_PAGES == 5
HARD_STOP_PAGE == 10
WINDOW_DAYS == 365
FEED_KEY_LEN == 100
RETRY_STATUSES == {429, 500, 502, 503, 504}
\* GOOD_THRESH = 0.25 and BAD_THRESH = -0.25, in hundredths
GOOD_THRESH == 25
BAD_THRESH == 0 - 25

(***************************************************************************)
(* Bounds of the model.  The ceilings of the configuration are bounds:    *)
(* the script sets the page ceilings to 20, 50 and 50, the row ceiling of  *)
(* the web source to 1000, and counts "few reviews" as fewer than 10 in a  *)
(* batch of up to GOOGLE_PLAY_BATCH_SIZE.                                  *)
(***************************************************************************)
MAX_PAGES_APP_STORE == 4
MAX_PAGES_GOOGLE_PLAY == 12
MAX_PAGES_TRUSTPILOT == 4
TRUSTPILOT_REVIEW_LIMIT == 2
FEW_REVIEWS == 2
\* ticks in a calendar day, and the day on which a run starts
TicksPerDay == 2
StartDay == 367
\* the continuation tokens reviews() hands out are 1..MaxToken
MaxToken == 2
\* at most MaxLag finished futures wait for as_completed to yield them
MaxLag == 2
\* scores, in hundredths, run from -MaxScore to MaxScore
MaxScore == 100

OtherStatuses == {403, 404}

Min(a, b) == IF a <= b THEN a ELSE b
Max(a, b) == IF a >= b THEN a ELSE b

Rep(c, n) == [i \in 1..n |-> c]

\* s[:n] of Python
Prefix(s, n) == SubSeq(s, 1, Min(n, Len(s)))

(***************************************************************************)
(* Dates.                                                                  *)
(***************************************************************************)
\* datetime.now(timezone.utc) at the start of a run: midnight or later that day
Nows == {StartDay * TicksPerDay, StartDay * TicksPerDay + 1}

last_12m_cutoff(now) == now - WINDOW_DAYS * TicksPerDay

\* dt >= cutoff of two aware datetimes compares the instants
is_within_last_12_months(dt, cut) == dt.ts >= cut

\* dt.date(): the calendar day of dt in dt's own zone
DateOf(dt) == (dt.ts + dt.tz) \div TicksPerDay

\* dateparser.parse of a bare ISO date, made aware as UTC: midnight UTC
ParseIsoDate(d) == d * TicksPerDay

(***************************************************************************)
(* Texts.                                                                  *)
(***************************************************************************)
IsSpace(c) == c = " "

\* the i with s[i] kept by re.sub(r"\s+", " ", s): of a run of spaces, the last
KeptAt(s) == {i \in 1..Len(s) : ~(IsSpace(s[i]) /\ i < Len(s) /\ IsSpace(s[i + 1]))}

\* the elements of s at the indices in idx, in order
Pick(s, idx) ==
    [j \in 1..Cardinality(idx) |->
        s[CHOOSE i \in idx : Cardinality({k \in idx : k <= i}) = j]]

\* re.sub(r"\s+", " ", s)
CollapseSpaces(s) == Pick(s, KeptAt(s))

\* str.strip()
Strip(s) ==
    LET ink == {i \in 1..Len(s) : ~IsSpace(s[i])}
    IN IF ink = {} THEN <<>>
       ELSE SubSeq(s, CHOOSE i \in ink : \A k \in ink : i <= k,
                      CHOOSE i \in ink : \A k \in ink : i >= k)

LongA == Rep("a", 80) \o Rep("b", 21)
LongB == Rep("a", 80) \o Rep("c", 21)
LongA2 == Rep("a", 80) \o Rep("b", 20) \o <<"z">>
ShortText == <<"o", "k">>
SpacedText == <<" ", "o", " ", " ", "k", " ">>
BlankText == <<" ", " ">>
NoText == <<>>

\* the raw texts the sources of the model deliver
Texts == {LongA, LongB, LongA2, ShortText, SpacedText, BlankText, NoText}

\* clean_text(t) and t.strip(), tabulated once over Texts
CleanTable == [t \in Texts |-> Strip(CollapseSpaces(t))]
StripTable == [t \in Texts |-> Strip(t)]

\* clean_text: None and "" both come out as the empty text (falsy)
clean_text(s) == CleanTable[s]

(***************************************************************************)
(* Ratings.  A raw rating is an integer literal, some other text, or       *)
(* missing.                                                                *)
(***************************************************************************)
IntRating(n) == [kind |-> "int", v |-> n]
TextRating == [kind |-> "text", v |-> 0]
NoRating == [kind |-> "none", v |-> 0]

\* int(str(val).strip()) raises for None and for a non-integer text
ClampRaises(val) == val.kind # "int"

clamp_star_rating(val) == Min(5, Max(1, val.v))

(***************************************************************************)
(* The fetchers.  A response is a transport error (err) or a status with   *)
(* a body; has_text is FALSE for an empty body.                            *)
(***************************************************************************)
None == [some |-> FALSE, body |-> <<>>]
Some(b) == [some |-> TRUE, body |-> b]

TransportError == [err |-> TRUE, status |-> 0, has_text |-> FALSE, body |-> <<>>]

Responses(bodies) ==
    {TransportError}
    \cup {[err |-> FALSE, status |-> s, has_text |-> FALSE, body |-> <<>>] :
            s \in RETRY_STATUSES \cup OtherStatuses \cup {200}}
    \cup {[err |-> FALSE, status |-> 200, has_text |-> TRUE, body |-> b] :
            b \in bodies}

\* one pass of the loop body of http_get_json after the shutdown check
HttpGetJsonOutcome(resp) ==
    IF resp.err THEN "retry"
    ELSE IF resp.status = 200 THEN "return"
    ELSE IF resp.status \in RETRY_STATUSES THEN "retry"
    ELSE "fail"

\* one pass of the loop body of http_get after the shutdown check
HttpGetOutcome(resp) ==
    IF ~resp.err /\ resp.status = 200 /\ resp.has_text THEN "return"
    ELSE "retry"

(***************************************************************************)
(* The feed source: entries of one RSS page and parse_rss_reviews.         *)
(***************************************************************************)
At(t, z) == [ok |-> TRUE, ts |-> t, tz |-> z]
NoDate == [ok |-> FALSE, ts |-> 0, tz |-> 0]

FeedEntry(r, c, t, u) == [rating |-> r, content |-> c, title |-> t, updated |-> u]

\* tick t of the day d days after the day of the cutoff
Tick(d, t) == (StartDay - WINDOW_DAYS + d) * TicksPerDay + t

EntryNewA == FeedEntry(IntRating(5), LongA, NoText, At(Tick(1, 0), 0))
EntryNewB == FeedEntry(IntRating(5), LongB, NoText, At(Tick(1, 0), 0))
EntryNewA2 == FeedEntry(IntRating(5), LongA2, NoText, At(Tick(1, 1), 0))
EntryHigh == FeedEntry(IntRating(7), ShortText, NoText, At(Tick(0, 1), -1))
EntryTitle == FeedEntry(IntRating(0), BlankText, SpacedText, At(Tick(1, 0), 1))
EntryEdge == FeedEntry(IntRating(3), ShortText, NoText, At(Tick(0, 0), 0))
EntryBadRating == FeedEntry(TextRating, ShortText, NoText, At(Tick(1, 0), 0))
EntryNoDate == FeedEntry(IntRating(4), ShortText, NoText, NoDate)
EntryNoText == FeedEntry(IntRating(4), BlankText, NoText, At(Tick(1, 0), 0))
EntryEmpty == FeedEntry(NoRating, NoText, NoText, At(Tick(1, 0), 0))
\* an entry stamped two days after the run
EntryFuture == FeedEntry(IntRating(4), ShortText, NoText, At(Tick(WINDOW_DAYS + 2, 0), 0))

FeedPages ==
    { <<>>,
      <<EntryNewA, EntryNewB>>,
      <<EntryNewA2, EntryHigh>>,
      <<EntryEdge>>,
      <<EntryFuture>>,
      <<EntryNewA, EntryEdge>>,
      <<EntryTitle, EntryNoText>>,
      <<EntryBadRating, EntryNoDate, EntryEmpty>> }

\* the row parse_rss_reviews appends for one entry
RssRow(e) ==
    [ dt |-> [ts |-> e.updated.ts, tz |-> e.updated.tz],
      review_date |-> DateOf(e.updated),
      star_rating |-> clamp_star_rating(e.rating),
      review_text |->
          IF clean_text(e.content) # <<>> THEN clean_text(e.content)
          ELSE clean_text(e.title),
      platform |-> "App Store" ]

\* the entries parse_rss_reviews passes over with continue
RssSkips(e) ==
    \/ (e.rating.kind = "none" /\ e.content = <<>>)
    \/ ClampRaises(e.rating)
    \/ ~e.updated.ok
    \/ (clean_text(e.content) = <<>> /\ clean_text(e.title) = <<>>)

RECURSIVE parse_rss_reviews(_)
parse_rss_reviews(entries) ==
    IF entries = <<>> THEN <<>>
    ELSE IF RssSkips(Head(entries)) THEN parse_rss_reviews(Tail(entries))
    ELSE <<RssRow(Head(entries))>> \o parse_rss_reviews(Tail(entries))

\* the oldest dt of a non-empty list of rows, as the for loop of
\* scrape_app_store finds it
RECURSIVE OldestOf(_)
OldestOf(rows) ==
    IF Len(rows) = 1 THEN rows[1].dt
    ELSE LET o == OldestOf(Tail(rows))
         IN IF o.ts < rows[1].dt.ts THEN o ELSE rows[1].dt

\* the rows of one page the feed paginator appends
FeedKept(rows, cut) == SelectSeq(rows, LAMBDA r : is_within_last_12_months(r.dt, cut))

\* a paginator that breaks only when every row of the page is out of the
\* window
FeedStopsWhenNoneKept(rows, cut) == FeedKept(rows, cut) = <<>>

\* "if oldest and not is_within_last_12_months(oldest, cutoff): break"
FeedStops(rows, cut) == ~is_within_last_12_months(OldestOf(rows), cut)

FeedKey(r) == <<r.review_date, r.star_rating, Prefix(r.review_text, FEED_KEY_LEN)>>

Clean(r) ==
    [ review_date |-> r.review_date, star_rating |-> r.star_rating,
      review_text |-> r.review_text, platform |-> r.platform, ts |-> r.dt.ts ]

RECURSIVE FeedDedup(_, _)
\* the closing loop of scrape_app_store over rows, seen being the keys so far
FeedDedup(rows, keys) ==
    IF rows = <<>> THEN <<>>
    ELSE IF FeedKey(Head(rows)) \in keys THEN FeedDedup(Tail(rows), keys)
    ELSE <<Clean(Head(rows))>> \o FeedDedup(Tail(rows), keys \cup {FeedKey(Head(rows))})

(***************************************************************************)
(* The web source: the review cards of one HTML page and parse_page.       *)
(***************************************************************************)
\* a review card, by what parse_date, parse_rating and extract_text make of it
Card(t, r, x) == [time |-> t, rating |-> r, text |-> x]

CardNewA == Card(At(Tick(1, 0), 0), IntRating(5), LongA)
CardNewB == Card(At(Tick(1, 0), 0), IntRating(5), LongB)
CardZero == Card(At(Tick(1, 0), 0), IntRating(0), ShortText)
\* the last tick of the day before the cutoff's day, in a zone one tick ahead
CardZone == Card(At(Tick(-1, TicksPerDay - 1), 1), IntRating(4), ShortText)
\* the second tick of the cutoff's day
CardEdge == Card(At(Tick(0, 1), 0), IntRating(3), ShortText)
CardOld == Card(At(Tick(-1, 0), 0), IntRating(4), ShortText)
CardNoTime == Card(NoDate, IntRating(4), ShortText)
CardNoRating == Card(At(Tick(1, 0), 0), NoRating, ShortText)
CardNoText == Card(At(Tick(1, 0), 0), IntRating(4), NoText)

PageA == <<CardNewA, CardZero>>
PageB == <<CardNewB, CardZone>>
PageOld == <<CardOld>>
PageEdge == <<CardEdge, CardOld>>
PageJunk == <<CardNoTime, CardNoRating, CardNoText>>
PageNone == <<>>

WebPages == {PageA, PageB, PageOld, PageEdge, PageJunk, PageNone}

\* the cards parse_page passes over with continue
CardSkips(c) == ~c.time.ok \/ c.rating.kind # "int" \/ c.text = <<>>

\* the row parse_page appends for one card: parse_rating returns the digit
CardRow(c) ==
    [ review_date |-> DateOf(c.time), star_rating |-> c.rating.v,
      review_text |-> c.text, platform |-> "Trustpilot", ts |-> c.time.ts ]

RECURSIVE parse_page(_)
parse_page(cards) ==
    IF cards = <<>> THEN <<>>
    ELSE IF CardSkips(Head(cards)) THEN parse_page(Tail(cards))
    ELSE <<CardRow(Head(cards))>> \o parse_page(Tail(cards))

\* "review_dt >= cutoff" of scrape_trustpilot_page, review_dt parsed back
\* from the review_date string
WebInWindow(r, cut) == ParseIsoDate(r.review_date) >= cut

\* what scrape_trustpilot_page returns for the html it fetched
PageResult(html, cut) ==
    LET rows == parse_page(html)
    IN [ total |-> Len(rows),
         rows |-> SelectSeq(rows, LAMBDA r : WebInWindow(r, cut)) ]

\* what scrape_trustpilot_page returns without a page
NoPage == [total |-> 0, rows |-> <<>>]

WebKey(r) == <<r.review_date, r.star_rating, Prefix(r.review_text, WEB_KEY_LEN)>>

RECURSIVE WebFold(_, _)
\* "for r in page_reviews": acc holds all_rows and seen_keys
WebFold(rows, acc) ==
    IF rows = <<>> THEN acc
    ELSE IF WebKey(Head(rows)) \in acc.seen THEN WebFold(Tail(rows), acc)
    ELSE WebFold(Tail(rows),
            [ rows |-> Append(acc.rows, Head(rows)),
              seen |-> acc.seen \cup {WebKey(Head(rows))} ])

\* a site: the page each page number serves, no items past the pages given
Serves(pages) ==
    [p \in 1..MAX_PAGES_TRUSTPILOT |->
        IF p <= Len(pages) THEN pages[p] ELSE PageNone]

Sites ==
    { Serves(<<PageA>>),
      Serves(<<PageA, PageOld, PageOld, PageOld>>),
      Serves(<<PageB, PageA, PageJunk, PageEdge>>),
      Serves(<<>>) }

(***************************************************************************)
(* State.                                                                  *)
(***************************************************************************)
vars == <<src, shutdown_requested, now_utc, cutoff, pc, page, attempt, data,
          reqlog, parsed, all_rows, seen, result, token, batch,
          consecutive_errors, site, estimated_pages, fut, task_attempt,
          task_res, done_q, consecutive_empty_pages, stop_reason,
          net_after_shutdown, all_reviews, enabled, raised, flag_at_turn,
          turn, harvested, arg, ret, gave_up>>

clockVars == <<now_utc, cutoff>>
fetchVars == <<attempt, data, reqlog>>
rowVars == <<all_rows, seen, result>>
storeVars == <<token, batch, consecutive_errors>>
poolVars == <<fut, task_attempt, task_res, done_q>>
webVars == <<site, estimated_pages, poolVars, consecutive_empty_pages, stop_reason>>
orchVars == <<all_reviews, enabled, raised, flag_at_turn, turn>>
callVars == <<arg, ret>>

\* the keys of all_reviews, in the order scrape_all_platforms takes them
Sources == <<"app_store", "google_play", "trustpilot">>
SourceNames == {Sources[i] : i \in DOMAIN Sources}

\* a key all_reviews does not hold
Absent == [present |-> FALSE, rows |-> <<>>]
Held(rows) == [present |-> TRUE, rows |-> rows]

InitCommon ==
    /\ shutdown_requested = FALSE
    /\ now_utc \in Nows
    /\ cutoff = last_12m_cutoff(now_utc)
    /\ page = 0
    /\ data = None
    /\ reqlog = <<>>
    /\ parsed = <<>>
    /\ all_rows = <<>>
    /\ seen = {}
    /\ result = <<>>
    /\ token = 0
    /\ batch = <<>>
    /\ consecutive_errors = 0
    /\ estimated_pages = 0
    /\ fut = <<>>
    /\ task_attempt = <<>>
    /\ task_res = <<>>
    /\ done_q = <<>>
    /\ consecutive_empty_pages = 0
    /\ stop_reason = "none"
    /\ net_after_shutdown = FALSE
    /\ all_reviews = [s \in SourceNames |-> Absent]
    /\ raised = {}
    /\ flag_at_turn = {}
    /\ harvested = [s \in SourceNames |-> Absent]
    /\ gave_up = FALSE

\* a run of one fetcher or one paginator: scrape_all_platforms is not entered
NoOrchestrator ==
    /\ enabled = [s \in SourceNames |-> TRUE]
    /\ turn = 0

\* a run that calls none of the pure functions on its own
NoCall ==
    /\ arg = [fn |-> "none"]
    /\ ret = <<>>

\* signal_handler: SIGINT arrives at any moment of a run
Shutdown ==
    /\ ~shutdown_requested
    /\ pc # "done"
    /\ shutdown_requested' = TRUE
    /\ UNCHANGED <<callVars, gave_up, harvested, orchVars, src, clockVars, pc, page, fetchVars, parsed, rowVars,
                   storeVars, webVars, net_after_shutdown>>

\* the bodies a fetch of this run can be answered with
Bodies ==
    IF src \in {"feed", "http_get_json"} THEN FeedPages
    ELSE IF src = "web" THEN {site[page]}
    ELSE WebPages

\* the log of a call is kept for the runs that are one fetch call
Logged(resp) == IF src \in {"http_get_json", "http_get"} THEN Append(reqlog, resp) ELSE reqlog

\* a fetcher that looks at the flag before its first attempt only
CancelledBeforeFirstAttempt == shutdown_requested /\ attempt = 1

\* "if shutdown_requested: return None" at the top of every attempt
CancelledBeforeAttempt == shutdown_requested

\* a loop over range(1, MAX_RETRIES + 2)
MoreAttemptsInclusive(a) == a <= MAX_RETRIES

\* "for attempt in range(1, MAX_RETRIES + 1)": another pass follows pass a
MoreAttempts(a) == a < MAX_RETRIES

\* http_get_json: one pass of "for attempt in range(1, MAX_RETRIES + 1)"
HttpGetJsonAttempt ==
    /\ pc = "json_try"
    /\ IF CancelledBeforeAttempt
       THEN /\ data' = None
            /\ pc' = "json_ret"
            /\ UNCHANGED <<attempt, reqlog, net_after_shutdown>>
       ELSE \E resp \in Responses(Bodies) :
            /\ reqlog' = Logged(resp)
            /\ net_after_shutdown' = (net_after_shutdown \/ shutdown_requested)
            /\ CASE HttpGetJsonOutcome(resp) = "return" ->
                      /\ data' = Some(resp.body)
                      /\ pc' = "json_ret"
                      /\ UNCHANGED attempt
                 [] HttpGetJsonOutcome(resp) = "fail" ->
                      /\ data' = None
                      /\ pc' = "json_ret"
                      /\ UNCHANGED attempt
                 [] HttpGetJsonOutcome(resp) = "retry" ->
                      IF MoreAttempts(attempt)
                      THEN /\ attempt' = attempt + 1
                           /\ UNCHANGED <<data, pc>>
                      ELSE /\ data' = None
                           /\ pc' = "json_ret"
                           /\ UNCHANGED attempt
    /\ UNCHANGED <<callVars, gave_up, harvested, orchVars, src, shutdown_requested, clockVars, page, parsed, rowVars,
                   storeVars, webVars>>

\* http_get: one pass of "for attempt in range(1, MAX_RETRIES + 1)"
HttpGetAttempt ==
    /\ pc = "html_try"
    /\ IF CancelledBeforeAttempt
       THEN /\ data' = None
            /\ pc' = "html_ret"
            /\ UNCHANGED <<attempt, reqlog, net_after_shutdown>>
       ELSE \E resp \in Responses(Bodies) :
            /\ reqlog' = Logged(resp)
            /\ net_after_shutdown' = (net_after_shutdown \/ shutdown_requested)
            /\ IF HttpGetOutcome(resp) = "return"
               THEN /\ data' = Some(resp.body)
                    /\ pc' = "html_ret"
                    /\ UNCHANGED attempt
               ELSE IF MoreAttempts(attempt)
               THEN /\ attempt' = attempt + 1
                    /\ UNCHANGED <<data, pc>>
               ELSE /\ data' = None
                    /\ pc' = "html_ret"
                    /\ UNCHANGED attempt
    /\ UNCHANGED <<callVars, gave_up, harvested, orchVars, src, shutdown_requested, clockVars, page, parsed, rowVars,
                   storeVars, webVars>>

(***************************************************************************)
(* A run that is one call of a fetcher.                                    *)
(***************************************************************************)
InitFetch ==
    /\ InitCommon
    /\ NoOrchestrator
    /\ NoCall
    /\ src \in {"http_get_json", "http_get"}
    /\ site = <<>>
    /\ pc = IF src = "http_get_json" THEN "json_try" ELSE "html_try"
    /\ attempt = 1

NextFetch == HttpGetJsonAttempt \/ HttpGetAttempt \/ Shutdown

SpecFetch == InitFetch /\ [][NextFetch]_vars

(***************************************************************************)
(* scrape_app_store.                                                       *)
(***************************************************************************)
InitAppStore ==
    /\ InitCommon
    /\ NoOrchestrator
    /\ NoCall
    /\ site = <<>>
    /\ src = "feed"
    /\ pc = "a_loop"
    /\ attempt = 0

\* a loop that runs one page past the ceiling
PagesLeftInclusive(pg, max_pages) == pg <= max_pages

\* "for page in range(1, max_pages + 1)" and "while page < max_pages": pg
\* pages have been begun and another may be
PagesLeft(pg, max_pages) == pg < max_pages

\* the head of "for page in range(1, max_pages + 1)", the shutdown check
\* and the call of http_get_json
AppStorePage ==
    /\ src = "feed"
    /\ pc = "a_loop"
    /\ IF ~PagesLeft(page, MAX_PAGES_APP_STORE) \/ shutdown_requested
       THEN /\ pc' = "a_dedup"
            /\ UNCHANGED <<page, attempt>>
       ELSE /\ page' = page + 1
            /\ attempt' = 1
            /\ pc' = "json_try"
    /\ UNCHANGED <<callVars, gave_up, harvested, orchVars, src, shutdown_requested, clockVars, data, reqlog, parsed,
                   rowVars, storeVars, webVars, net_after_shutdown>>

\* the rest of the loop body, from "if not data" to the sleep
AppStoreBody ==
    /\ src = "feed"
    /\ pc = "json_ret"
    /\ attempt' = 0
    /\ data' = None
    /\ IF ~data.some
       THEN /\ pc' = "a_dedup"
            /\ UNCHANGED <<parsed, all_rows>>
       ELSE /\ parsed' = parse_rss_reviews(data.body)
            /\ IF parsed' = <<>>
               THEN /\ pc' = "a_dedup"
                    /\ UNCHANGED all_rows
               ELSE /\ all_rows' = all_rows \o FeedKept(parsed', cutoff)
                    /\ pc' = IF FeedStops(parsed', cutoff) THEN "a_dedup" ELSE "a_loop"
    /\ UNCHANGED <<callVars, gave_up, harvested, orchVars, src, shutdown_requested, clockVars, page, reqlog, seen,
                   result, storeVars, webVars, net_after_shutdown>>

\* session.close() and the deduplication after the loop
AppStoreDedup ==
    /\ src = "feed"
    /\ pc = "a_dedup"
    /\ result' = FeedDedup(all_rows, {})
    /\ pc' = "done"
    /\ UNCHANGED <<callVars, gave_up, harvested, orchVars, src, shutdown_requested, clockVars, page, fetchVars, parsed,
                   all_rows, seen, storeVars, webVars, net_after_shutdown>>

NextAppStore ==
    \/ AppStorePage
    \/ HttpGetJsonAttempt
    \/ AppStoreBody
    \/ AppStoreDedup
    \/ Shutdown

SpecAppStore == InitAppStore /\ [][NextAppStore]_vars

(***************************************************************************)
(* scrape_google_play.  reviews() of google_play_scraper either raises or  *)
(* returns a batch and a continuation token.                               *)
(***************************************************************************)
StoreItem(a, sc, c) == [at |-> a, score |-> sc, content |-> c]

ItemNewA == StoreItem(At(Tick(1, 0), 0), 5, LongA)
ItemNewB == StoreItem(At(Tick(1, 0), 0), 5, LongB)
ItemNewA2 == StoreItem(At(Tick(1, 1), 0), 5, LongA2)
ItemEdge == StoreItem(At(Tick(0, 0), 0), 3, SpacedText)
ItemZero == StoreItem(At(Tick(1, 0), 0), 0, ShortText)
ItemSix == StoreItem(At(Tick(1, 0), 0), 6, ShortText)
ItemNoDate == StoreItem(NoDate, 4, ShortText)
ItemBlank == StoreItem(At(Tick(1, 0), 0), 4, BlankText)

StoreBatches ==
    { <<>>,
      <<ItemNewA, ItemNewB>>,
      <<ItemNewA2, ItemEdge>>,
      <<ItemEdge>>,
      <<ItemZero, ItemSix, ItemNoDate, ItemBlank>> }

StoreOutcomes ==
    {[raises |-> TRUE, batch |-> <<>>, token |-> 0]}
    \cup {[raises |-> FALSE, batch |-> b, token |-> t] :
            b \in StoreBatches, t \in 0..MaxToken}

\* the items of a batch the for loop passes over with continue before the key
StoreSkips(r, cut) ==
    \/ ~r.at.ok
    \/ r.at.ts < cut
    \/ r.score < 1
    \/ r.score > 5
    \/ StripTable[r.content] = <<>>

StoreRow(r) ==
    [ review_date |-> DateOf(r.at), star_rating |-> r.score,
      review_text |-> StripTable[r.content], platform |-> "Google Play Store",
      ts |-> r.at.ts ]

StoreKey(r) ==
    <<DateOf(r.at), r.score, Prefix(StripTable[r.content], STORE_KEY_LEN)>>

RECURSIVE StoreFold(_, _, _)
\* "for r in batch": acc holds all_rows, seen and reviews_added
StoreFold(items, cut, acc) ==
    IF items = <<>> THEN acc
    ELSE IF StoreSkips(Head(items), cut) \/ StoreKey(Head(items)) \in acc.seen
    THEN StoreFold(Tail(items), cut, acc)
    ELSE StoreFold(Tail(items), cut,
            [ rows |-> Append(acc.rows, StoreRow(Head(items))),
              seen |-> acc.seen \cup {StoreKey(Head(items))},
              added |-> acc.added + 1 ])

\* "if reviews_added < 10 and page > 5: ... if page > 10: break"
FewReviewsStop(added, pg) == added < FEW_REVIEWS /\ pg > GRACE_PAGES /\ pg > HARD_STOP_PAGE

InitGooglePlay ==
    /\ InitCommon
    /\ NoOrchestrator
    /\ NoCall
    /\ site = <<>>
    /\ src = "store"
    /\ pc = "g_loop"
    /\ attempt = 0

\* a call that loses the continuation token when it raises
AfterReviewsLosesToken(out, next_if_raised) ==
    IF out.raises
    THEN /\ pc' = next_if_raised
         /\ token' = 0
         /\ UNCHANGED batch
    ELSE /\ batch' = out.batch
         /\ token' = out.token
         /\ pc' = "g_body"

\* what follows a call of reviews(): out is what the call did
AfterReviews(out, next_if_raised) ==
    IF out.raises
    THEN /\ pc' = next_if_raised
         /\ UNCHANGED <<token, batch>>
    ELSE /\ batch' = out.batch
         /\ token' = out.token
         /\ pc' = "g_body"

\* a paginator that stops one failure later
ErrorStopLate(n) == n > MAX_CONSECUTIVE_ERRORS

\* "if consecutive_errors >= MAX_CONSECUTIVE_ERRORS: ... break"
ErrorStop(n) == n >= MAX_CONSECUTIVE_ERRORS

\* "while page < max_pages", the shutdown check and the call in the try block
GooglePlayCall ==
    /\ src = "store"
    /\ pc = "g_loop"
    /\ IF ~PagesLeft(page, MAX_PAGES_GOOGLE_PLAY) \/ shutdown_requested
       THEN /\ pc' = "g_ret"
            /\ UNCHANGED <<page, storeVars, net_after_shutdown>>
       ELSE /\ page' = page + 1
            /\ net_after_shutdown' = (net_after_shutdown \/ shutdown_requested)
            /\ \E out \in StoreOutcomes :
                 /\ consecutive_errors' =
                        IF out.raises THEN consecutive_errors + 1 ELSE 0
                 /\ AfterReviews(out,
                        IF ErrorStop(consecutive_errors + 1)
                        THEN "g_ret" ELSE "g_retry")
    /\ UNCHANGED <<callVars, gave_up, harvested, orchVars, src, shutdown_requested, clockVars, fetchVars, parsed, rowVars,
                   webVars>>

\* the call in the except block, after time.sleep(2.0)
GooglePlayRetry ==
    /\ src = "store"
    /\ pc = "g_retry"
    /\ net_after_shutdown' = (net_after_shutdown \/ shutdown_requested)
    /\ \E out \in StoreOutcomes :
         /\ consecutive_errors' = IF out.raises THEN consecutive_errors ELSE 0
         /\ AfterReviews(out, "g_loop")
    /\ UNCHANGED <<callVars, gave_up, harvested, orchVars, src, shutdown_requested, clockVars, page, fetchVars, parsed,
                   rowVars, webVars>>

\* a paginator that asks again with the token it started with
NoTokenIgnored(t) == FALSE

\* "if token is None"
NoToken(t) == t = 0

\* the loop body from "if not batch" to the polite pause
GooglePlayBody ==
    /\ src = "store"
    /\ pc = "g_body"
    /\ IF batch = <<>>
       THEN /\ pc' = "g_ret"
            /\ UNCHANGED <<all_rows, seen>>
       ELSE LET acc == StoreFold(batch, cutoff,
                          [rows |-> all_rows, seen |-> seen, added |-> 0])
            IN /\ all_rows' = acc.rows
               /\ seen' = acc.seen
               /\ pc' = IF FewReviewsStop(acc.added, page) \/ NoToken(token)
                        THEN "g_ret" ELSE "g_loop"
    /\ UNCHANGED <<callVars, gave_up, harvested, orchVars, src, shutdown_requested, clockVars, page, fetchVars, parsed,
                   result, storeVars, webVars, net_after_shutdown>>

\* "return all_rows"
GooglePlayReturn ==
    /\ src = "store"
    /\ pc = "g_ret"
    /\ result' = all_rows
    /\ pc' = "done"
    /\ UNCHANGED <<callVars, gave_up, harvested, orchVars, src, shutdown_requested, clockVars, page, fetchVars, parsed,
                   all_rows, seen, storeVars, webVars, net_after_shutdown>>

NextGooglePlay ==
    \/ GooglePlayCall
    \/ GooglePlayRetry
    \/ GooglePlayBody
    \/ GooglePlayReturn
    \/ Shutdown

SpecGooglePlay == InitGooglePlay /\ [][NextGooglePlay]_vars

(***************************************************************************)
(* scrape_trustpilot: the exploratory phase.                               *)
(***************************************************************************)
InitTrustpilot ==
    /\ InitCommon
    /\ NoOrchestrator
    /\ NoCall
    /\ src = "web"
    /\ site \in Sites
    /\ pc = "t_explore"
    /\ attempt = 0

\* "for test_page in range(1, min(6, MAX_PAGES_TRUSTPILOT + 1))"
ExploreLast == Min(EXPLORE_END, MAX_PAGES_TRUSTPILOT + 1) - 1

\* a scheduler that leaves out the pages the exploratory phase sampled
PagesNotSampled(est) == (est + 1)..(Min(est + PAGE_MARGIN, MAX_PAGES_TRUSTPILOT + 1) - 1)

\* "for page in range(1, min(estimated_pages + 10, MAX_PAGES_TRUSTPILOT + 1))"
PagesToScrape(est) == 1..(Min(est + PAGE_MARGIN, MAX_PAGES_TRUSTPILOT + 1) - 1)

\* a pool as wide as the configured concurrency
PoolWidthUncapped == Max(MAX_WORKERS, POOL_CAP)

\* ThreadPoolExecutor(max_workers=min(MAX_WORKERS, 3))
PoolWidth == Min(MAX_WORKERS, POOL_CAP)

\* the pool is entered: every page of urls_to_scrape is submitted
SubmitAll(est) ==
    /\ fut' = [p \in PagesToScrape(est) |-> "pending"]
    /\ task_attempt' = [p \in PagesToScrape(est) |-> 0]
    /\ task_res' = [p \in PagesToScrape(est) |-> NoPage]
    /\ done_q' = <<>>
    /\ pc' = "t_loop"

\* the exploratory loop is left: "if estimated_pages == 0: return []", else
\* the tasks are submitted
AfterExplore(est) ==
    /\ page' = 0
    /\ attempt' = 0
    /\ data' = None
    /\ IF est = 0
       THEN /\ pc' = "t_ret_empty"
            /\ UNCHANGED poolVars
       ELSE SubmitAll(est)

\* the head of the exploratory loop, its shutdown check, the call of http_get
ExplorePage ==
    /\ src = "web"
    /\ pc = "t_explore"
    /\ IF page >= ExploreLast
       THEN AfterExplore(estimated_pages)
       ELSE IF shutdown_requested
       THEN /\ pc' = "t_ret_empty"
            /\ UNCHANGED <<page, attempt, data, poolVars>>
       ELSE /\ page' = page + 1
            /\ attempt' = 1
            /\ pc' = "html_try"
            /\ UNCHANGED <<data, poolVars>>
    /\ UNCHANGED <<callVars, gave_up, harvested, orchVars, src, shutdown_requested, clockVars, reqlog, parsed,
                   rowVars, storeVars, site, estimated_pages,
                   consecutive_empty_pages, stop_reason, net_after_shutdown>>

\* "old_reviews == len(rows) and test_page > 2"
AllOld(rows, cut, pg) ==
    /\ \A i \in 1..Len(rows) : ParseIsoDate(rows[i].review_date) < cut
    /\ pg > 2

\* the rest of the exploratory loop body, from "if html" to the sleep
ExploreBody ==
    /\ src = "web"
    /\ pc = "html_ret"
    /\ IF ~data.some
       THEN /\ pc' = "t_explore"
            /\ attempt' = 0
            /\ data' = None
            /\ UNCHANGED <<page, estimated_pages, poolVars>>
       ELSE IF parse_page(data.body) = <<>>
       THEN /\ AfterExplore(estimated_pages)
            /\ UNCHANGED estimated_pages
       ELSE /\ estimated_pages' = page
            /\ IF AllOld(parse_page(data.body), cutoff, page)
               THEN AfterExplore(page)
               ELSE /\ pc' = "t_explore"
                    /\ attempt' = 0
                    /\ data' = None
                    /\ UNCHANGED <<page, poolVars>>
    /\ UNCHANGED <<callVars, gave_up, harvested, orchVars, src, shutdown_requested, clockVars, reqlog, parsed,
                   rowVars, storeVars, site, consecutive_empty_pages,
                   stop_reason, net_after_shutdown>>

\* "return []" by way of "finally: session.close()"
ReturnEmpty ==
    /\ src = "web"
    /\ pc = "t_ret_empty"
    /\ result' = <<>>
    /\ pc' = "done"
    /\ UNCHANGED <<callVars, gave_up, harvested, orchVars, src, shutdown_requested, clockVars, page, fetchVars, parsed,
                   all_rows, seen, storeVars, webVars, net_after_shutdown>>

(***************************************************************************)
(* scrape_trustpilot: the pool of page tasks and the as_completed loop.    *)
(***************************************************************************)
Pending == {p \in DOMAIN fut : fut[p] = "pending"}
Running == {p \in DOMAIN fut : fut[p] = "running"}

\* a worker of the pool takes the next work item that is not cancelled
TaskStart(p) ==
    /\ src = "web"
    /\ pc \in {"t_loop", "t_cancel", "t_join"}
    /\ p \in Pending
    /\ \A q \in Pending : p <= q
    /\ Cardinality(Running) < PoolWidth
    /\ fut' = [fut EXCEPT ![p] = "running"]
    /\ task_attempt' = [task_attempt EXCEPT ![p] = 1]
    /\ UNCHANGED <<callVars, gave_up, harvested, orchVars, src, shutdown_requested, clockVars, pc, page, fetchVars,
                   parsed, rowVars, storeVars, site, estimated_pages, task_res,
                   done_q, consecutive_empty_pages, stop_reason,
                   net_after_shutdown>>

\* the future of page p is set to what scrape_trustpilot_page returned
Finish(p, res) ==
    /\ Len(done_q) < MaxLag
    /\ fut' = [fut EXCEPT ![p] = "finished"]
    /\ task_attempt' = [task_attempt EXCEPT ![p] = 0]
    /\ task_res' = [task_res EXCEPT ![p] = IF pc = "t_loop" THEN res ELSE NoPage]
    /\ done_q' = IF pc = "t_loop" THEN Append(done_q, p) ELSE done_q

\* scrape_trustpilot_page in a worker: its shutdown check and one pass of
\* the loop of http_get, then parse_page and the window filter
TaskAttempt(p) ==
    /\ src = "web"
    /\ p \in Running
    /\ IF CancelledBeforeAttempt
       THEN /\ Finish(p, NoPage)
            /\ UNCHANGED <<net_after_shutdown, gave_up>>
       ELSE \E resp \in Responses({site[p]}) :
            /\ net_after_shutdown' = (net_after_shutdown \/ shutdown_requested)
            /\ IF HttpGetOutcome(resp) = "return"
               THEN /\ Finish(p, PageResult(resp.body, cutoff))
                    /\ UNCHANGED gave_up
               ELSE IF MoreAttempts(task_attempt[p])
               THEN /\ task_attempt' = [task_attempt EXCEPT ![p] = @ + 1]
                    /\ UNCHANGED <<fut, task_res, done_q, gave_up>>
               ELSE /\ Finish(p, NoPage)
                    /\ gave_up' = TRUE
    /\ UNCHANGED <<callVars, harvested, orchVars, src, shutdown_requested, clockVars, pc, page, fetchVars,
                   parsed, rowVars, storeVars, site, estimated_pages,
                   consecutive_empty_pages, stop_reason>>

\* "if total_reviews == 0: consecutive_empty_pages += 1 ... else: ... = 0"
EmptyCount(res, n) == IF res.total = 0 THEN n + 1 ELSE 0

\* "if consecutive_empty_pages >= 3"
EmptyStop(n) == n >= EMPTY_PAGES_STOP

\* a scheduler that stops when the list has reached the ceiling
LimitStopAtCeiling(rows) == Len(rows) >= TRUSTPILOT_REVIEW_LIMIT

\* "if len(all_rows) > TRUSTPILOT_REVIEW_LIMIT"
LimitStop(rows) == Len(rows) > TRUSTPILOT_REVIEW_LIMIT

\* one pass of "for future in as_completed(future_to_page)"
ProcessCompleted ==
    /\ src = "web"
    /\ pc = "t_loop"
    /\ done_q # <<>>
    /\ IF shutdown_requested
       THEN /\ stop_reason' = "shutdown"
            /\ pc' = "t_cancel"
            /\ done_q' = <<>>
            /\ UNCHANGED <<fut, task_res, consecutive_empty_pages, all_rows, seen>>
       ELSE LET p == Head(done_q)
                res == task_res[p]
                n == EmptyCount(res, consecutive_empty_pages)
                acc == WebFold(res.rows, [rows |-> all_rows, seen |-> seen])
            IN /\ fut' = [fut EXCEPT ![p] = "processed"]
               /\ task_res' = [task_res EXCEPT ![p] = NoPage]
               /\ consecutive_empty_pages' = n
               /\ IF res.total = 0 /\ EmptyStop(n)
                  THEN /\ stop_reason' = "empty"
                       /\ pc' = "t_cancel"
                       /\ done_q' = <<>>
                       /\ UNCHANGED <<all_rows, seen>>
                  ELSE /\ all_rows' = acc.rows
                       /\ seen' = acc.seen
                       /\ IF LimitStop(acc.rows)
                          THEN /\ stop_reason' = "limit"
                               /\ pc' = "t_cancel"
                               /\ done_q' = <<>>
                          ELSE /\ done_q' = Tail(done_q)
                               /\ UNCHANGED <<pc, stop_reason>>
    /\ UNCHANGED <<callVars, gave_up, harvested, orchVars, src, shutdown_requested, clockVars, page, fetchVars, parsed,
                   result, storeVars, site, estimated_pages, task_attempt,
                   net_after_shutdown>>

\* as_completed has yielded every future
LoopExhausted ==
    /\ src = "web"
    /\ pc = "t_loop"
    /\ \A p \in DOMAIN fut : fut[p] = "processed"
    /\ pc' = "t_join"
    /\ UNCHANGED <<callVars, gave_up, harvested, orchVars, src, shutdown_requested, clockVars, page, fetchVars, parsed,
                   rowVars, storeVars, webVars, net_after_shutdown>>

\* "for f in future_to_page: f.cancel()" (in page order; cancel() of a
\* future that runs or is done changes nothing), then break
CancelNext ==
    /\ src = "web"
    /\ pc = "t_cancel"
    /\ IF Pending = {}
       THEN /\ pc' = "t_join"
            /\ UNCHANGED fut
       ELSE /\ fut' = [fut EXCEPT ![CHOOSE p \in Pending : \A q \in Pending : p <= q]
                                  = "cancelled"]
            /\ UNCHANGED pc
    /\ UNCHANGED <<callVars, gave_up, harvested, orchVars, src, shutdown_requested, clockVars, page, fetchVars, parsed,
                   rowVars, storeVars, site, estimated_pages, task_attempt,
                   task_res, done_q, consecutive_empty_pages, stop_reason,
                   net_after_shutdown>>

\* a scheduler that hands nothing on when it was interrupted
JoinDropsOnShutdown ==
    /\ src = "web"
    /\ pc = "t_join"
    /\ Pending = {}
    /\ Running = {}
    /\ result' = IF shutdown_requested THEN <<>> ELSE all_rows
    /\ pc' = "done"
    /\ UNCHANGED <<callVars, gave_up, harvested, orchVars, src, shutdown_requested,
                   clockVars, page, fetchVars, parsed, all_rows, seen,
                   storeVars, webVars, net_after_shutdown>>

\* a scheduler that returns without waiting for its workers
JoinWithoutWait ==
    /\ src = "web"
    /\ pc = "t_join"
    /\ result' = all_rows
    /\ pc' = "done"
    /\ UNCHANGED <<callVars, gave_up, harvested, orchVars, src, shutdown_requested,
                   clockVars, page, fetchVars, parsed, all_rows, seen,
                   storeVars, webVars, net_after_shutdown>>

\* a scheduler that waits for the cancelled tasks too
JoinWaitsForCancelled ==
    /\ src = "web"
    /\ pc = "t_join"
    /\ \A p \in DOMAIN fut : fut[p] \in {"finished", "processed"}
    /\ result' = all_rows
    /\ pc' = "done"
    /\ UNCHANGED <<callVars, gave_up, harvested, orchVars, src, shutdown_requested,
                   clockVars, page, fetchVars, parsed, all_rows, seen,
                   storeVars, webVars, net_after_shutdown>>

\* the with block is left: executor.shutdown(wait=True), session.close(),
\* "return all_rows"
Join ==
    /\ src = "web"
    /\ pc = "t_join"
    /\ Pending = {}
    /\ Running = {}
    /\ result' = all_rows
    /\ pc' = "done"
    /\ UNCHANGED <<callVars, gave_up, harvested, orchVars, src, shutdown_requested, clockVars, page, fetchVars, parsed,
                   all_rows, seen, storeVars, webVars, net_after_shutdown>>

NextTrustpilot ==
    \/ ExplorePage
    \/ HttpGetAttempt
    \/ ExploreBody
    \/ ReturnEmpty
    \/ \E p \in 1..MAX_PAGES_TRUSTPILOT : TaskStart(p)
    \/ \E p \in 1..MAX_PAGES_TRUSTPILOT : TaskAttempt(p)
    \/ ProcessCompleted
    \/ LoopExhausted
    \/ CancelNext
    \/ Join
    \/ Shutdown

SpecTrustpilot == InitTrustpilot /\ [][NextTrustpilot]_vars

(***************************************************************************)
(* scrape_all_platforms.  A harvest call is taken by what it does for its  *)
(* caller: it returns a list or it raises.                                 *)
(***************************************************************************)
HarvestLists == {<<>>, <<CardRow(CardNewA)>>, <<CardRow(CardNewA), CardRow(CardEdge)>>}

HarvestOutcomes ==
    {[raises |-> TRUE, rows |-> <<>>]}
    \cup {[raises |-> FALSE, rows |-> l] : l \in HarvestLists}

InitAll ==
    /\ InitCommon
    /\ NoCall
    /\ src = "all"
    /\ site = <<>>
    /\ attempt = 0
    /\ enabled \in [SourceNames -> BOOLEAN]
    /\ turn = 1
    /\ pc = "o_if"

\* an orchestrator that gives up on the later sources once a harvest raised
SourceRunsUntilRaise(s) == enabled[s] /\ ~shutdown_requested /\ raised = {}

\* "if SCRAPE_X and not shutdown_requested"
SourceRuns(s) == enabled[s] /\ ~shutdown_requested

\* what the try statement leaves in all_reviews[s]
Recorded(out) == IF out.raises THEN Held(<<>>) ELSE Held(out.rows)

\* one of the three if statements: its condition
OrchIf ==
    /\ src = "all"
    /\ pc = "o_if"
    /\ turn <= Len(Sources)
    /\ flag_at_turn' = IF shutdown_requested
                       THEN flag_at_turn \cup {Sources[turn]}
                       ELSE flag_at_turn
    /\ IF SourceRuns(Sources[turn])
       THEN /\ pc' = "o_try"
            /\ UNCHANGED turn
       ELSE /\ turn' = turn + 1
            /\ UNCHANGED pc
    /\ UNCHANGED <<callVars, gave_up, src, shutdown_requested, clockVars, page, fetchVars, parsed,
                   rowVars, storeVars, webVars, net_after_shutdown,
                   all_reviews, enabled, raised, harvested>>

\* the try statement of a source: the harvest call and the except clause
OrchTry ==
    /\ src = "all"
    /\ pc = "o_try"
    /\ \E out \in HarvestOutcomes :
         /\ all_reviews' = [all_reviews EXCEPT ![Sources[turn]] = Recorded(out)]
         /\ raised' = IF out.raises THEN raised \cup {Sources[turn]} ELSE raised
         /\ harvested' = [harvested EXCEPT ![Sources[turn]] =
                              IF out.raises THEN Absent ELSE Held(out.rows)]
    /\ turn' = turn + 1
    /\ pc' = "o_if"
    /\ UNCHANGED <<callVars, gave_up, src, shutdown_requested, clockVars, page, fetchVars, parsed,
                   rowVars, storeVars, webVars, net_after_shutdown,
                   enabled, flag_at_turn>>

\* "return all_reviews"
OrchReturn ==
    /\ src = "all"
    /\ pc = "o_if"
    /\ turn > Len(Sources)
    /\ pc' = "done"
    /\ UNCHANGED <<callVars, gave_up, src, shutdown_requested, clockVars, page, fetchVars, parsed,
                   rowVars, storeVars, webVars, net_after_shutdown, orchVars,
                   harvested>>

NextAll == OrchIf \/ OrchTry \/ OrchReturn \/ Shutdown

SpecAll == InitAll /\ [][NextAll]_vars

(***************************************************************************)
(* The pure functions: label_from_score and the three anonymizers.  A name *)
(* is a sequence of one-character strings, and so is what an anonymizer    *)
(* returns.                                                                *)
(***************************************************************************)
Scores == (0 - MaxScore)..MaxScore

\* a labelling that takes the thresholds themselves for neutral
label_from_score_strict(score) ==
    IF score > GOOD_THRESH THEN "good"
    ELSE IF score < BAD_THRESH THEN "bad"
    ELSE "neutral"

label_from_score(score) ==
    IF score >= GOOD_THRESH THEN "good"
    ELSE IF score <= BAD_THRESH THEN "bad"
    ELSE "neutral"

LowerCase == << "a", "b", "c", "d", "e", "f", "g", "h", "i", "j", "k", "l", "m",
                "n", "o", "p", "q", "r", "s", "t", "u", "v", "w", "x", "y", "z" >>
UpperCase == << "A", "B", "C", "D", "E", "F", "G", "H", "I", "J", "K", "L", "M",
                "N", "O", "P", "Q", "R", "S", "T", "U", "V", "W", "X", "Y", "Z" >>

\* [A-Za-z]
IsLetter(c) == \E i \in 1..26 : c = LowerCase[i] \/ c = UpperCase[i]

\* str.upper() and str.lower() of one character
ToUpper(c) ==
    IF \E i \in 1..26 : c = LowerCase[i]
    THEN UpperCase[CHOOSE i \in 1..26 : c = LowerCase[i]]
    ELSE c
ToLower(c) ==
    IF \E i \in 1..26 : c = UpperCase[i]
    THEN LowerCase[CHOOSE i \in 1..26 : c = UpperCase[i]]
    ELSE c

\* the maximal runs of non-space characters of s, in order: what
\* re.split(r"\s+", ...) leaves once its empty pieces are dropped
RECURSIVE Words(_, _)
Words(s, cur) ==
    IF s = <<>> THEN (IF cur = <<>> THEN <<>> ELSE <<cur>>)
    ELSE IF IsSpace(Head(s))
    THEN (IF cur = <<>> THEN <<>> ELSE <<cur>>) \o Words(Tail(s), <<>>)
    ELSE Words(Tail(s), Append(cur, Head(s)))

\* "[p for p in ... if re.search(r"[A-Za-z]", p)]"
NameParts(name) ==
    SelectSeq(Words(name, <<>>), LAMBDA w : \E i \in 1..Len(w) : IsLetter(w[i]))

\* re.search(pat, name, re.I) for a literal pattern
Contains(name, pat) ==
    \E i \in 0..(Len(name) - Len(pat)) :
        \A j \in 1..Len(pat) : ToLower(name[i + j]) = pat[j]

Sentinel == <<"A", ".">>

\* what the three anonymizers return for the parts they found; sep is what
\* stands between the two initials
Initials(parts, sep) ==
    IF parts = <<>> THEN Sentinel
    ELSE IF Len(parts) = 1 THEN <<ToUpper(parts[1][1]), ".">>
    ELSE <<ToUpper(parts[1][1]), ".">> \o sep
             \o <<ToUpper(parts[Len(parts)][1]), ".">>

to_initials(name) ==
    IF name = <<>> THEN Sentinel ELSE Initials(NameParts(name), <<>>)

\* the alternatives of r"anonymous|anon|google user|a google user"
GooglePlaceholders ==
    { <<"a", "n", "o", "n", "y", "m", "o", "u", "s">>,
      <<"a", "n", "o", "n">>,
      <<"g", "o", "o", "g", "l", "e", " ", "u", "s", "e", "r">>,
      <<"a", " ", "g", "o", "o", "g", "l", "e", " ", "u", "s", "e", "r">> }

\* the alternatives of r"anonymous|anon|trustpilot user"
TrustpilotPlaceholders ==
    { <<"a", "n", "o", "n", "y", "m", "o", "u", "s">>,
      <<"a", "n", "o", "n">>,
      <<"t", "r", "u", "s", "t", "p", "i", "l", "o", "t", " ", "u", "s", "e", "r">> }

\* " ".join(full_name.split())
JoinWords(name) == CollapseSpaces(Strip(name))

anonymize_name_google(full_name) ==
    IF full_name = <<>> THEN Sentinel
    ELSE IF \E pat \in GooglePlaceholders : Contains(JoinWords(full_name), pat)
    THEN Sentinel
    ELSE Initials(NameParts(JoinWords(full_name)), <<" ">>)

anonymize_name_trustpilot(full_name) ==
    IF full_name = <<>> THEN Sentinel
    ELSE IF \E pat \in TrustpilotPlaceholders : Contains(JoinWords(full_name), pat)
    THEN Sentinel
    ELSE Initials(NameParts(JoinWords(full_name)), <<" ">>)

\* the names the calls are made with
JaneDoe == <<"J", "a", "n", "e", " ", "D", "o", "e">>
AnonymousUser ==
    <<"A", "n", "o", "n", "y", "m", "o", "u", "s", " ", "U", "s", "e", "r">>

Names ==
    { <<>>, JaneDoe, AnonymousUser,
      <<" ">>,
      <<"j", "a", "n", "e">>,
      <<" ", "j", "o", " ", " ", "v", "a", "n", " ", "d", "o", "e", " ">>,
      <<"4", "2", " ", "7">>,
      <<"4", "u", " ", "B", "o", "b">>,
      <<"M", "a", "n", "o", "n", " ", "R", "o", "y">>,
      <<"A", " ", "G", "o", "o", "g", "l", "e", " ", "u", "s", "e", "r">>,
      <<"T", "r", "u", "s", "t", "p", "i", "l", "o", "t", " ", "U", "s", "e", "r">> }

Anonymizers == {"to_initials", "anonymize_name_google", "anonymize_name_trustpilot"}

InitCalls ==
    /\ InitCommon
    /\ NoOrchestrator
    /\ src = "call"
    /\ site = <<>>
    /\ attempt = 0
    /\ pc = "call"
    /\ arg \in [fn : {"label_from_score"}, score : Scores]
                 \cup [fn : Anonymizers, name : Names]
    /\ ret = <<>>

\* the call returns
Returns(val) ==
    /\ src = "call"
    /\ pc = "call"
    /\ ret' = val
    /\ pc' = "done"
    /\ UNCHANGED <<arg, gave_up, harvested, orchVars, src, shutdown_requested, clockVars,
                   page, fetchVars, parsed, rowVars, storeVars, webVars,
                   net_after_shutdown>>

LabelCall ==
    /\ arg.fn = "label_from_score"
    /\ Returns(label_from_score(arg.score))

InitialsCall ==
    /\ arg.fn = "to_initials"
    /\ Returns(to_initials(arg.name))

GoogleNameCall ==
    /\ arg.fn = "anonymize_name_google"
    /\ Returns(anonymize_name_google(arg.name))

TrustpilotNameCall ==
    /\ arg.fn = "anonymize_name_trustpilot"
    /\ Returns(anonymize_name_trustpilot(arg.name))

NextCalls == LabelCall \/ InitialsCall \/ GoogleNameCall \/ TrustpilotNameCall

SpecCalls == InitCalls /\ [][NextCalls]_vars

(***************************************************************************)
(* Any one of the three paginators, or scrape_all_platforms.               *)
(***************************************************************************)
InitSources == InitAppStore \/ InitGooglePlay \/ InitTrustpilot \/ InitAll

NextSources ==
    \/ NextAppStore
    \/ NextGooglePlay
    \/ NextTrustpilot
    \/ NextAll

SpecSources == InitSources /\ [][NextSources]_vars

(***************************************************************************)
(* One run of any of the three paginators, under the scheduling the        *)
(* program has: the main thread and every worker of the pool keep running  *)
(* (a statement that can be executed is executed; a request is answered or *)
(* times out after REQUEST_TIMEOUT, a sleep ends).  SIGINT may arrive or   *)
(* not: nothing is assumed about it.                                       *)
(***************************************************************************)
InitPaginators == InitAppStore \/ InitGooglePlay \/ InitTrustpilot

\* the steps of the program itself
PaginatorSteps ==
    \/ AppStorePage
    \/ HttpGetJsonAttempt
    \/ AppStoreBody
    \/ AppStoreDedup
    \/ GooglePlayCall
    \/ GooglePlayRetry
    \/ GooglePlayBody
    \/ GooglePlayReturn
    \/ ExplorePage
    \/ HttpGetAttempt
    \/ ExploreBody
    \/ ReturnEmpty
    \/ \E p \in 1..MAX_PAGES_TRUSTPILOT : TaskStart(p)
    \/ \E p \in 1..MAX_PAGES_TRUSTPILOT : TaskAttempt(p)
    \/ ProcessCompleted
    \/ LoopExhausted
    \/ CancelNext
    \/ Join

NextPaginators == PaginatorSteps \/ Shutdown

SpecPaginators ==
    InitPaginators /\ [][NextPaginators]_vars /\ WF_vars(PaginatorSteps)

(***************************************************************************)
(* Properties.                                                             *)
(***************************************************************************)
RetStates == {"json_ret", "html_ret"}
TryStates == {"json_try", "html_try"}

\* a response after which the fetcher of this run does not return a payload
Fails(resp) ==
    IF src = "http_get_json" THEN HttpGetJsonOutcome(resp) # "return"
    ELSE HttpGetOutcome(resp) # "return"

AllFail == \A i \in 1..Len(reqlog) : Fails(reqlog[i])

\* the fingerprint of a record: date, rating, first 100 characters of the text
Fingerprint(r) == <<r.review_date, r.star_rating, Prefix(r.review_text, 100)>>

\* the positions of a paginator after its loop
AfterLoop == {"a_dedup", "g_ret", "t_cancel", "t_join", "t_ret_empty", "done"}

\* the records a paginator has accepted, as its return statement hands them on
Accepted == IF src = "feed" THEN FeedDedup(all_rows, {}) ELSE all_rows

\* C11: a paginator that has left its loop, on the shutdown flag or
\* otherwise, accepts nothing more and returns exactly the records it had
\* accepted by then; scrape_all_platforms returns, for every source whose
\* harvest call returned, the list that call returned.
C11_PartialResultsHandedOn ==
    /\ [](  /\ (src \in {"feed", "store", "web"} /\ pc = "done") =>
                   result = Accepted
            /\ (src = "all" /\ pc = "done") =>
                   \A s \in SourceNames :
                       harvested[s].present => all_reviews[s] = harvested[s] )
    /\ [][(src \in {"feed", "store", "web"} /\ pc \in AfterLoop) =>
              all_rows' = all_rows]_vars

C11_Witness ==
    /\ src = "web"
    /\ pc = "done"
    /\ stop_reason = "shutdown"
    /\ result # <<>>
    /\ \E p \in DOMAIN fut : fut[p] = "cancelled"

\* C12: label_from_score is total and determined by the score and the two
\* thresholds: 'good' from GOOD_THRESH up, 'bad' from BAD_THRESH down,
\* 'neutral' strictly between; the thresholds themselves give 'good' and
\* 'bad'.
C12_LabelByThresholds ==
    (src = "call" /\ pc = "done" /\ arg.fn = "label_from_score") =>
        /\ ret \in {"good", "bad", "neutral"}
        /\ ret = "good" <=> arg.score >= GOOD_THRESH
        /\ ret = "bad" <=> (arg.score < GOOD_THRESH /\ arg.score <= BAD_THRESH)
        /\ arg.score = GOOD_THRESH => ret = "good"
        /\ arg.score = BAD_THRESH => ret = "bad"

C12_Witness ==
    /\ src = "call"
    /\ pc = "done"
    /\ arg.fn = "label_from_score"
    /\ arg.score = BAD_THRESH
    /\ ret = "bad"

\* C14: every record a normalizer produces, and every record of a source's
\* final output, has a review_date not later than the day of the run.
C14_NoFutureDate ==
    /\ \A i \in 1..Len(all_rows) : all_rows[i].review_date <= now_utc \div TicksPerDay
    /\ \A i \in 1..Len(result) : result[i].review_date <= now_utc \div TicksPerDay

FingerprintSet(rows) == {Fingerprint(rows[i]) : i \in 1..Len(rows)}

RECURSIVE InPageOrder(_, _, _)
\* what the as_completed loop accepts when the submitted pages complete in
\* page order and every page task returns the page the site serves
InPageOrder(p, n, acc) ==
    IF p \notin DOMAIN fut THEN acc.rows
    ELSE LET res == PageResult(site[p], cutoff)
             m == EmptyCount(res, n)
             next == WebFold(res.rows, acc)
         IN IF res.total = 0 /\ EmptyStop(m) THEN acc.rows
            ELSE IF LimitStop(next.rows) THEN next.rows
            ELSE InPageOrder(p + 1, m, next)

\* C15: for fixed page contents, the fingerprints of the final output of
\* scrape_trustpilot are the same whatever the order the page tasks complete
\* in: an uninterrupted run whose page tasks all got their page returns the
\* fingerprints the run in page order returns.
C15_MembershipInAnyOrder ==
    (src = "web" /\ pc = "done" /\ fut # <<>> /\ ~shutdown_requested /\ ~gave_up) =>
        FingerprintSet(result) =
            FingerprintSet(InPageOrder(1, 0, [rows |-> <<>>, seen |-> {}]))

\* the run in page order is one of the runs: a state reached
C15_PageOrderRun ==
    /\ src = "web" /\ pc = "done" /\ fut # <<>> /\ ~shutdown_requested /\ ~gave_up
    /\ site = Serves(<<PageA>>)
    /\ result # <<>>
    /\ result = InPageOrder(1, 0, [rows |-> <<>>, seen |-> {}])

\* the as_completed loop has been left by a stop
Triggered == src = "web" /\ pc \in {"t_cancel", "t_join", "done"} /\ stop_reason # "none"

\* C16: once the stop of the web scheduler is triggered, a page task that
\* has not started never starts (it is cancelled), the running tasks finish
\* before the function returns, and nothing is added to the output.
C16_NothingStartsAfterStop ==
    [][Triggered =>
           /\ \A p \in DOMAIN fut :
                  fut[p] = "pending" => fut'[p] \in {"pending", "cancelled"}
           /\ pc' = "done" => \A p \in DOMAIN fut : fut[p] \notin {"pending", "running"}
           /\ all_rows' = all_rows]_vars

\* a step of the store paginator in which the call of reviews() for the next
\* page raised
CallRaised == src = "store" /\ pc = "g_loop" /\ page' = page + 1 /\ pc' # "g_body"

\* C17: when the store-API call for a page raises, the inline retry of that
\* call follows, for every failing page, and it is made once.
C17_RetryForEveryFailingPage ==
    [][ /\ CallRaised => pc' = "g_retry"
        /\ (src = "store" /\ pc = "g_retry" /\ pc' # pc) => pc' \in {"g_body", "g_loop"}
      ]_vars

\* C18: the store paginator stops as soon as consecutive_errors reaches
\* MAX_CONSECUTIVE_ERRORS, a successful call (first call or retry) resets the
\* counter to 0, and a raising call stops the source only with the counter at
\* MAX_CONSECUTIVE_ERRORS.
C18_StopsAtThreeInARow ==
    /\ [](src = "store" =>
              /\ consecutive_errors <= MAX_CONSECUTIVE_ERRORS
              /\ consecutive_errors >= MAX_CONSECUTIVE_ERRORS => pc \in {"g_ret", "done"})
    /\ [][ /\ (src = "store" /\ pc \in {"g_loop", "g_retry"} /\ pc' = "g_body") =>
                   consecutive_errors' = 0
           /\ CallRaised => consecutive_errors' = consecutive_errors + 1
           /\ (CallRaised /\ pc' = "g_ret") =>
                   consecutive_errors' = MAX_CONSECUTIVE_ERRORS
         ]_vars

C18_Witness ==
    /\ src = "store"
    /\ pc = "g_ret"
    /\ consecutive_errors = MAX_CONSECUTIVE_ERRORS
    /\ ~shutdown_requested
    /\ page < MAX_PAGES_GOOGLE_PLAY
    /\ all_rows # <<>>

\* the oldest item of the batch is older than the cutoff
OldestIsOld == \E i \in 1..Len(batch) : batch[i].at.ok /\ batch[i].at.ts < cutoff

\* C19: after the first batch whose oldest item is older than the cutoff has
\* been processed, the store paginator ends pagination.
C19_StoreStopsAfterOldBatch ==
    [][(src = "store" /\ pc = "g_body" /\ OldestIsOld /\ pc' # pc) => pc' = "g_ret"]_vars

\* C20: the output list of the web source never holds more records than
\* TRUSTPILOT_REVIEW_LIMIT.
C20_WithinItemCeiling ==
    src = "web" =>
        /\ Len(all_rows) <= TRUSTPILOT_REVIEW_LIMIT
        /\ Len(result) <= TRUSTPILOT_REVIEW_LIMIT

\* the fetch call returned None after its last attempt, the flag not set
RetriesExhausted == ~data.some /\ attempt = MAX_RETRIES /\ ~shutdown_requested

\* C21: a fetch that failed after its retries is treated as a page with no
\* items: the feed paginator ends pagination, the web exploratory phase ends
\* exploration, and a page task of the concurrent phase returns what it
\* returns for a page without items.
C21_FailedFetchIsEmptyPage ==
    [][ /\ (src = "feed" /\ pc = "json_ret" /\ RetriesExhausted /\ pc' # pc) =>
               pc' = "a_dedup"
        /\ (src = "web" /\ pc = "html_ret" /\ RetriesExhausted /\ pc' # pc) =>
               (pc' \in {"t_loop", "t_ret_empty"} \/ page >= ExploreLast)
        /\ src = "web" =>
               \A p \in DOMAIN fut :
                   (fut[p] = "running" /\ fut'[p] = "finished" /\ gave_up' /\ ~gave_up) =>
                       task_res'[p] = PageResult(PageNone, cutoff)
      ]_vars

\* C22: in the concurrent phase of the web source at most
\* min(MAX_WORKERS, 3) page tasks execute at any moment, and only an
\* executing page task has a request in progress.
C22_AtMostPoolWidthRunning ==
    src = "web" =>
        /\ Cardinality(Running) <= Min(MAX_WORKERS, POOL_CAP)
        /\ \A p \in DOMAIN fut : task_attempt[p] > 0 => p \in Running

C22_Witness ==
    /\ src = "web"
    /\ Cardinality(Running) = Min(MAX_WORKERS, POOL_CAP)
    /\ Pending # {}
    /\ \A p \in Running : task_attempt[p] > 0

\* the rating of a feed entry is an integer from 1 to 5
RatingInRange(e) == e.rating.kind = "int" /\ e.rating.v \in 1..5

\* C23: a feed item whose rating is non-numeric or outside 1..5 produces no
\* record, and the other items of its page are normalized as they are
\* without it.
C23_BadRatingSkipsItemOnly ==
    [][(src = "feed" /\ pc = "json_ret" /\ data.some /\ pc' # pc) =>
           parsed' = parse_rss_reviews(SelectSeq(data.body, RatingInRange))]_vars

\* reviews_added of the batch the loop body is about to process
ReviewsAdded == StoreFold(batch, cutoff, [rows |-> all_rows, seen |-> seen, added |-> 0]).added

\* the loop body processes a non-empty batch that adds very few records
FewAdded ==
    /\ src = "store" /\ pc = "g_body" /\ pc' # pc
    /\ batch # <<>> /\ ReviewsAdded < FEW_REVIEWS

\* C24: a page of the store source on which very few records were accepted
\* does not stop pagination before the hard cutoff page (in the grace period
\* or in the pages after it), and stops it once the page index has reached
\* the hard cutoff page.
C24_FewReviewsStopAtHardCutoff ==
    [][FewAdded =>
           /\ (page < HARD_STOP_PAGE /\ token # 0) => pc' = "g_loop"
           /\ page >= HARD_STOP_PAGE => pc' = "g_ret"]_vars

\* the page index moves by one, when a new page is begun and only then
PageStep ==
    /\ page' \in {page, page + 1}
    /\ (pc # "json_try" /\ pc' = "json_try") => page' = page + 1
    /\ (pc \notin {"a_loop", "g_loop"} \/ pc' = pc) => page' = page

\* C25: the feed paginator requests the page indices 1, 2, 3, ... in steps of
\* one and none above max_pages; the store paginator begins at most
\* MAX_PAGES_GOOGLE_PLAY page iterations, the failed ones included.
C25_PageCeilings ==
    /\ [](  /\ src = "feed" => page \in 0..MAX_PAGES_APP_STORE
            /\ (src = "feed" /\ pc = "json_try") => page \in 1..MAX_PAGES_APP_STORE
            /\ src = "store" => page \in 0..MAX_PAGES_GOOGLE_PLAY )
    /\ [][(src \in {"feed", "store"}) => PageStep]_vars

C25_Witness ==
    /\ src = "store"
    /\ pc = "g_ret"
    /\ page = MAX_PAGES_GOOGLE_PLAY
    /\ consecutive_errors > 0
    /\ consecutive_errors < MAX_CONSECUTIVE_ERRORS
    /\ ~shutdown_requested

\* the store loop processes the batch of a call that signalled the end
LastBatch ==
    /\ src = "store" /\ pc = "g_body" /\ pc' # pc
    /\ (batch = <<>> \/ token = 0)

\* C26: after a store-API call that returned an empty batch, or a non-empty
\* batch without a continuation token, no further call is made; the records
\* of that batch are filtered, deduplicated and accepted first.
C26_StopsWhenExhausted ==
    [][ /\ LastBatch =>
               /\ pc' = "g_ret"
               /\ all_rows' = StoreFold(batch, cutoff,
                                  [rows |-> all_rows, seen |-> seen, added |-> 0]).rows
        /\ (src = "store" /\ pc \in {"g_ret", "done"}) =>
               (pc' \in {"g_ret", "done"} /\ all_rows' = all_rows)
      ]_vars

C26_Witness ==
    /\ src = "store"
    /\ pc = "g_ret"
    /\ page = 2
    /\ token = 0
    /\ batch # <<>>
    /\ consecutive_errors = 0
    /\ Len(all_rows) > 2

\* the page task of page p has returned the rows of its page
Returned(p) == fut[p] = "finished" /\ task_res[p].total > 0

\* every card of the page with a timestamp at or after the cutoff is among rows
WebKeepsWindow(cards, rows) ==
    \A i \in 1..Len(cards) :
        (~CardSkips(cards[i]) /\ cards[i].time.ts >= cutoff) =>
            \E j \in 1..Len(rows) : rows[j] = CardRow(cards[i])

\* every parsed feed row with a timestamp at or after the cutoff is among rows
FeedKeepsWindow(entries, rows) ==
    \A i \in 1..Len(parse_rss_reviews(entries)) :
        parse_rss_reviews(entries)[i].dt.ts >= cutoff =>
            \E j \in 1..Len(rows) : rows[j] = parse_rss_reviews(entries)[i]

\* every usable store item with a timestamp at or after the cutoff is in the
\* dedup index
StoreKeepsWindow(items, keys) ==
    \A i \in 1..Len(items) :
        ( /\ items[i].at.ok /\ items[i].at.ts >= cutoff
          /\ items[i].score \in 1..5 /\ StripTable[items[i].content] # <<>> ) =>
            StoreKey(items[i]) \in keys

\* C27: the window filter of each source keeps every record whose source
\* timestamp is at or after the cutoff instant, the cutoff instant itself and
\* the rest of the cutoff's calendar day included.
C27_WindowKeepsFromCutoff ==
    /\ [](src = "web" =>
              \A p \in DOMAIN fut : Returned(p) => WebKeepsWindow(site[p], task_res[p].rows))
    /\ [][ /\ (src = "feed" /\ pc = "json_ret" /\ data.some /\ pc' # pc) =>
                   FeedKeepsWindow(data.body, all_rows')
           /\ (src = "store" /\ pc = "g_body" /\ pc' # pc) =>
                   StoreKeepsWindow(batch, seen')
         ]_vars

\* every call of http_get in the exploratory phase is for the next test page
ExploreOnce == (pc # "html_try" /\ pc' = "html_try") => page' = page + 1

\* a page task starts from the queue and is never queued again
TaskOnce ==
    \A p \in DOMAIN fut \cap DOMAIN fut' :
        /\ (fut'[p] = "running" /\ fut[p] # "running") => fut[p] = "pending"
        /\ fut[p] # "pending" => fut'[p] # "pending"

\* C28 as amended: each page URL is requested by at most one fetch call of
\* the exploratory phase and by at most one page task of the concurrent
\* phase; the pages the exploratory phase sampled are submitted again.
C28_OncePerPhase ==
    /\ [](src = "web" /\ fut # <<>> => \A p \in 1..estimated_pages : p \in DOMAIN fut)
    /\ [][src = "web" => (ExploreOnce /\ TaskOnce)]_vars

C28_Witness ==
    /\ src = "web"
    /\ estimated_pages >= 1
    /\ ~gave_up
    /\ 1 \in DOMAIN fut
    /\ Returned(1)

\* C28: within one run of the web source no page URL is requested by more
\* than one fetch call: a page requested in the exploratory phase is not
\* fetched by a page task of the concurrent phase.
C28_NoPageFetchedTwice ==
    src = "web" => \A p \in DOMAIN fut : Returned(p) => p > estimated_pages

\* C29: when scrape_trustpilot has returned no page task is running or
\* waiting to run, and none runs or issues a request afterwards.
C29_NoTaskOutlivesReturn ==
    /\ []((src = "web" /\ pc = "done") =>
              \A p \in DOMAIN fut :
                  fut[p] \notin {"pending", "running"} /\ task_attempt[p] = 0)
    /\ [][(src = "web" /\ pc = "done") =>
              /\ fut' = fut
              /\ task_attempt' = task_attempt
              /\ net_after_shutdown' = net_after_shutdown]_vars

C29_Witness ==
    /\ src = "web"
    /\ pc = "done"
    /\ stop_reason = "limit"
    /\ \E p \in DOMAIN fut : fut[p] = "finished"
    /\ \E p \in DOMAIN fut : fut[p] = "cancelled"

\* the inline retry of the store paginator raised as well
RetryRaised == src = "store" /\ pc = "g_retry" /\ pc' = "g_loop"

\* C30: when a store-API call and its inline retry both raise, the
\* continuation token, the dedup index and the accepted records are left as
\* they were for the next iteration, and the failed iteration has used up
\* one page of the ceiling.
C30_FailedIterationFrame ==
    [][ /\ (CallRaised \/ RetryRaised) =>
               /\ token' = token
               /\ seen' = seen
               /\ all_rows' = all_rows
        /\ CallRaised => page' = page + 1
        /\ RetryRaised => page' = page
      ]_vars

C30_Witness ==
    /\ src = "store"
    /\ pc = "g_loop"
    /\ consecutive_errors = 1
    /\ page = 2
    /\ token # 0
    /\ all_rows # <<>>

\* C20 as amended: the web source stops at the first completed page after
\* which its output list holds more records than TRUSTPILOT_REVIEW_LIMIT, and
\* not before: the list is above the ceiling exactly when the ceiling has
\* stopped the loop, and nothing is added to it from then on.
C20_StopsOnceCeilingExceeded ==
    /\ [](src = "web" =>
              /\ Len(all_rows) > TRUSTPILOT_REVIEW_LIMIT =>
                     (pc \in {"t_cancel", "t_join", "done"} /\ stop_reason = "limit")
              /\ stop_reason = "limit" => Len(all_rows) > TRUSTPILOT_REVIEW_LIMIT)
    /\ [][(src = "web" /\ Len(all_rows) > TRUSTPILOT_REVIEW_LIMIT) =>
              all_rows' = all_rows]_vars

C20_Witness ==
    /\ src = "web"
    /\ pc = "done"
    /\ stop_reason = "limit"
    /\ Len(result) > TRUSTPILOT_REVIEW_LIMIT

JDForms == { <<"J", ".", "D", ".">>, <<"J", ".", " ", "D", ".">> }

\* C13: each of the three anonymizers maps 'Jane Doe' to a two-initial form
\* of J and D, the empty name to 'A.', and 'Anonymous User' to 'A.'.
C13_AnonymizerExamples ==
    (src = "call" /\ pc = "done" /\ arg.fn \in Anonymizers) =>
        /\ arg.name = JaneDoe => ret \in JDForms
        /\ arg.name = <<>> => ret = Sentinel
        /\ arg.name = AnonymousUser => ret = Sentinel

\* C1: once the shutdown flag is set, no paginator initiates a network call
\* (an HTTP request or a call of the store API), on retry paths either.
C1_NoCallOnceShutdown == ~net_after_shutdown

\* three consecutive page numbers whose pages hold no item have all been
\* yielded by as_completed and gone through the loop body
ThreeEmptyProcessed ==
    \E p \in DOMAIN fut :
        /\ p + 2 \in DOMAIN fut
        /\ \A q \in p..(p + 2) : fut[q] = "processed" /\ site[q] = PageNone

\* C2: when three consecutive page numbers return zero raw items, the
\* scheduler reaches its consecutive-empty stop, in whatever order the page
\* tasks complete.
C2_EmptyStopInAnyOrder ==
    (src = "web" /\ ThreeEmptyProcessed) => stop_reason = "empty"

HasOld(rows) == \E i \in 1..Len(rows) : rows[i].dt.ts < cutoff

\* C3: when the page the feed paginator has just parsed holds a row older
\* than the cutoff, pagination is over: the loop is left and no further page
\* is fetched.
C3_FeedStopsAfterOldPage ==
    (src = "feed" /\ HasOld(parsed)) => pc \in {"a_dedup", "done"}

C3_Witness ==
    /\ src = "feed"
    /\ HasOld(parsed)
    /\ FeedKept(parsed, cutoff) # <<>>
    /\ pc = "done"
    /\ ~shutdown_requested
    /\ page = 2
    /\ page < MAX_PAGES_APP_STORE

\* the step of the as_completed loop that takes the rows of a page into
\* all_rows
FoldsPage ==
    /\ src = "web"
    /\ pc = "t_loop"
    /\ done_q # <<>>
    /\ fut'[Head(done_q)] = "processed"
    /\ stop_reason' \in {"none", "limit"}

\* C4: the output never holds two records with the same fingerprint, and
\* once an in-window item with a fingerprint has been processed exactly one
\* record with that fingerprint is in the output.
C4_OneRecordPerFingerprint ==
    [][FoldsPage =>
        \A k \in 1..Len(task_res[Head(done_q)].rows) :
            Cardinality({i \in 1..Len(all_rows') :
                Fingerprint(all_rows'[i])
                    = Fingerprint(task_res[Head(done_q)].rows[k])}) = 1]_vars

\* C5: every record of the final output of a source has a source timestamp
\* that is not older than the cutoff instant.
C5_OutputWithinWindow ==
    \A i \in 1..Len(result) : result[i].ts >= cutoff

\* C6: every record a normalizer produced has an integer star_rating
\* between 1 and 5.
C6_RatingInRange ==
    \A i \in 1..Len(all_rows) : all_rows[i].star_rating \in 1..5

\* C7: a fetch call issues another request only after a transport error or
\* a status in {429, 500, 502, 503, 504}; any other non-200 status ends the
\* call after that request, with no payload.
C7_RetryOnlyOnTransient ==
    \A i \in 1..Len(reqlog) :
        /\ i < Len(reqlog) =>
               (reqlog[i].err \/ reqlog[i].status \in RETRY_STATUSES)
        /\ (~reqlog[i].err /\ reqlog[i].status \notin RETRY_STATUSES \cup {200}) =>
               (i = Len(reqlog) /\ pc \in RetStates /\ ~data.some)

C9_NoRequestWhenFlagSet ==
    [][(pc \in TryStates /\ shutdown_requested) =>
          (pc' \in RetStates /\ data' = None /\ reqlog' = reqlog)]_vars

C9_Witness ==
    /\ pc \in RetStates
    /\ shutdown_requested
    /\ data = None
    /\ reqlog # <<>>
    /\ Len(reqlog) < MAX_RETRIES
    /\ \A i \in 1..Len(reqlog) :
           reqlog[i].err \/ reqlog[i].status \in RETRY_STATUSES

\* source j comes after a source whose harvest call raised, and is enabled
LaterEnabled(j) ==
    /\ enabled[Sources[j]]
    /\ \E i \in 1..(j - 1) : Sources[i] \in raised

\* C10 as stated: after the harvest call of a source raised, that source has
\* an empty result, scrape_all_platforms returns, and every later enabled
\* source has been run.
C10_LaterSourcesAlwaysRun ==
    pc = "done" =>
        /\ \A s \in raised : all_reviews[s] = Held(<<>>)
        /\ \A j \in DOMAIN Sources :
               LaterEnabled(j) => all_reviews[Sources[j]].present

\* C10: after the harvest call of a source raised, that source has an empty
\* result, scrape_all_platforms returns, and every later enabled source has
\* been run unless the shutdown flag was set when its turn came.
C10_LaterSourcesRunUnlessFlagged ==
    /\ \A s \in raised : all_reviews[s] = Held(<<>>)
    /\ pc = "done" =>
        \A j \in DOMAIN Sources :
            LaterEnabled(j) =>
                (all_reviews[Sources[j]].present \/ Sources[j] \in flag_at_turn)

C10_Witness ==
    /\ pc = "done"
    /\ raised = {"app_store"}
    /\ all_reviews["app_store"] = Held(<<>>)
    /\ all_reviews["google_play"].present
    /\ all_reviews["google_play"].rows # <<>>
    /\ enabled["trustpilot"]
    /\ ~all_reviews["trustpilot"].present
    /\ "trustpilot" \in flag_at_turn

====
